---- MODULE Spec2Model ----
(***************************************************************************)
(* Model of main.js: the paginated place search with its page cache, the   *)
(* per-place detail lookups with their cache, normalisation, scoring and   *)
(* the export of one run, and of repeated runs over the same cache files.  *)
(*                                                                         *)
(* JavaScript values are tagged tuples, so that a number, a string, null   *)
(* and undefined can meet in one field.  Ratings and scores are counted in *)
(* tenths (the number 4.2 is Num(42), the bonus 2 is 20 tenths).           *)
(***************************************************************************)
EXTENDS Integers, Sequences, FiniteSets, TLC

VARIABLES
    rawCache,       \* ./cache/<city>_<type>_raw.json: [exists, places, nextPageToken]
    detailCache,    \* cache/place_details/<id>.json, per place id: NoFile or its content
    cleanedFile,    \* ./cache/<city>_<type>_cleaned.json: NoFile or the scored array
    sheet,          \* the "<city> - <type>" tab: NoFile (never written) or its rows
    pc,             \* where main() stands
    allBusinesses,  \* main: the Map id -> place, as the sequence of its values
    pageToken,      \* main: pageToken
    totalFetched,   \* main: totalFetched
    cachedData,     \* getBusinessData: cachedData
    requestBody,    \* getBusinessData: the pageToken of requestBody (Undefined: none)
    newData,        \* getBusinessData: response.data of the last search response
    data,           \* main: data, what getBusinessData returned last
    pending,        \* cleanBusinessData calls awaiting getPlaceDetails, by place id
    requested,      \* place ids whose detail GET is on the network
    placeDetails,   \* cleanBusinessData: placeDetails, per place id of this run
    cleanedData,    \* main: cleanedData, per place id of this run
    scoredData,     \* main: scoredData
    gotPage,        \* history: a search response arrived in this run
    searchFailed,   \* history: a search request failed in this run
    atStart,        \* history: the files as this run found them
    okCount,        \* history: successful detail requests per place id (saturates)
    gotDetail       \* history: the detail the first successful request returned, per id

vars == <<rawCache, detailCache, cleanedFile, sheet, pc, allBusinesses, pageToken,
          totalFetched, cachedData, requestBody, newData, data, pending, requested,
          placeDetails, cleanedData, scoredData, gotPage, searchFailed, atStart,
          okCount, gotDetail>>

----------------------------------------------------------------------------
(* JavaScript values *)

Undefined == <<"undefined">>
Null == <<"null">>
Num(n) == <<"number", n>>
Str(s) == <<"string", s>>
NA == Str("N/A")
NoFile == <<"nofile">>
File(content) == <<"file", content>>
Obj(fields) == <<"object", fields>>

\* what `if (v)`, `!v` and `a || b` take for true
Truthy(v) == v \notin {Undefined, Null, Num(0), Str("")}

JsOr(a, b) == IF Truthy(a) THEN a ELSE b

\* parseFloat and parseInt of a number or of the text "N/A"; ratings are in tenths
\* and counts are whole, so the finite numbers of the model convert to themselves
NaN == <<"NaN">>
parseFloat(v) == IF v[1] = "number" THEN v[2] ELSE NaN
parseInt(v) == IF v[1] = "number" THEN v[2] ELSE NaN

----------------------------------------------------------------------------
(* Bounds and program constants *)

MaxId == 64          \* place ids of the search model are 1..MaxId
PageSize == 20       \* places in a full search page
MaxOk == 2           \* okCount saturates here
MaxPlace == 1        \* place ids of the short search are 0..MaxPlace
MaxMergeId == 3      \* place ids of the merge inputs are 1..MaxMergeId
Ceiling == 60        \* main.js:49

----------------------------------------------------------------------------
(* Sequences *)

\* Map.has(id) on a Map held as the sequence of its values
MapHas(places, id) == \E i \in 1..Len(places) : places[i].id = id

\* the elements of s at the indices in I, in the order of s
KeepAt(s, I) ==
    LET tagged == [i \in 1..Len(s) |-> <<i, s[i]>>]
        kept == SelectSeq(tagged, LAMBDA e : e[1] \in I)
    IN  [k \in 1..Len(kept) |-> kept[k][2]]

\* new Map(), set(place.id, place) for each place of s in turn, then values():
\* a key stays where it was first set and holds what was set last
MapValues(s) ==
    LET n == Len(s)
        first == {i \in 1..n : \A j \in 1..(i - 1) : s[j].id # s[i].id}
        last == [i \in 1..n |->
                    s[CHOOSE j \in i..n :
                        /\ s[j].id = s[i].id
                        /\ \A k \in (j + 1)..n : s[k].id # s[i].id]]
    IN  KeepAt(last, first)

Ids(places) == {places[i].id : i \in 1..Len(places)}

NoDupIds(places) ==
    \A i, j \in 1..Len(places) : places[i].id = places[j].id => i = j

----------------------------------------------------------------------------
(* mergeBusinessData *)

\* variant: the two forEach loops in the other order
mergeBusinessData_keepsCached(cached, incoming) ==
    [places |-> MapValues(incoming.places \o cached.places),
     nextPageToken |-> incoming.nextPageToken]

\* variant: the arrays joined, no Map
mergeBusinessData_concat(cached, incoming) ==
    [places |-> cached.places \o incoming.places,
     nextPageToken |-> incoming.nextPageToken]

\* a Map filled with the cached places, then with the new ones; its values
mergeBusinessData(cached, incoming) ==
    [places |-> MapValues(cached.places \o incoming.places),
     nextPageToken |-> incoming.nextPageToken]

----------------------------------------------------------------------------
(* What the search endpoint answers: places of the field mask, and a token *)

\* a place as the search returns it; v tells two answers for one id apart
SearchPlace(i, v) ==
    [id |-> i,
     displayName |-> Str("name"),
     formattedAddress |-> Str("address"),
     rating |-> Num(40 + v),
     userRatingCount |-> Num(60 * v - 20)]

Interval(lo, hi, v) == [k \in 1..(hi - lo + 1) |-> SearchPlace(lo + k - 1, v)]

Min(a, b) == IF a < b THEN a ELSE b

Tokens == {Undefined, Str("tokA"), Str("tokB")}

\* pages of the long search: empty or full, each sharing one place with the next
LoopStarts == {s \in 1..MaxId : (s - 1) % (PageSize - 1) = 0}

LoopResponses ==
    {[places |-> Interval(lo, Min(lo + len - 1, MaxId), 1), nextPageToken |-> t] :
        lo \in LoopStarts, len \in {0, PageSize}, t \in Tokens}

\* what earlier runs of the same search can have left in the page cache
LoopCaches ==
    {[exists |-> FALSE, places |-> <<>>, nextPageToken |-> Undefined]} \cup
    {[exists |-> TRUE, places |-> Interval(1, k, 1), nextPageToken |-> Undefined] :
        k \in {PageSize, Ceiling - 1, Min(Ceiling + 1, MaxId)}}

----------------------------------------------------------------------------
(* main: the fetch loop, and getBusinessData *)

\* data.places.forEach: a place whose id is not yet a key is set and counted
Accumulate(map, count, places) ==
    LET fresh == {i \in 1..Len(places) :
                    /\ ~MapHas(map, places[i].id)
                    /\ \A j \in 1..(i - 1) : places[j].id # places[i].id}
    IN  [map |-> map \o KeepAt(places, fresh), count |-> count + Cardinality(fresh)]

\* variant: the ceiling test left out
LoopExit_tokenOnly(token, count) == ~Truthy(token)

\* if (!pageToken || totalFetched >= 60) break
LoopExit(token, count) == ~Truthy(token) \/ count >= Ceiling

\* if (pageToken) requestBody.pageToken = pageToken
RequestToken(token) == IF Truthy(token) THEN token ELSE Undefined

\* getBusinessData up to its await: the cache file is read, the request is sent
SendSearch ==
    /\ pc = "fetch"
    /\ cachedData' = IF rawCache.exists
                     THEN [places |-> rawCache.places,
                           nextPageToken |-> rawCache.nextPageToken]
                     ELSE [places |-> <<>>, nextPageToken |-> Undefined]
    /\ requestBody' = RequestToken(pageToken)
    /\ pc' = "awaitSearch"
    /\ UNCHANGED <<rawCache, detailCache, cleanedFile, sheet, allBusinesses, pageToken,
                   totalFetched, newData, data, pending, requested, placeDetails,
                   cleanedData, scoredData, gotPage, searchFailed, atStart, okCount,
                   gotDetail>>

\* the response arrives: merge, write the cache file, return; then the loop body
SearchResponse(response) ==
    /\ pc = "awaitSearch"
    /\ LET mergedData == mergeBusinessData(cachedData, response)
           acc == Accumulate(allBusinesses, totalFetched, mergedData.places)
       IN  /\ newData' = response
           /\ rawCache' = [exists |-> TRUE, places |-> mergedData.places,
                           nextPageToken |-> mergedData.nextPageToken]
           /\ data' = mergedData
           /\ allBusinesses' = acc.map
           /\ totalFetched' = acc.count
           /\ pageToken' = mergedData.nextPageToken
           /\ pc' = IF LoopExit(mergedData.nextPageToken, acc.count)
                    THEN "clean" ELSE "fetch"
    /\ gotPage' = TRUE
    /\ UNCHANGED <<detailCache, cleanedFile, sheet, cachedData, requestBody, pending,
                   requested, placeDetails, cleanedData, scoredData, searchFailed,
                   atStart, okCount, gotDetail>>

\* variant: the error is logged and not rethrown
SearchFailure_swallowed ==
    /\ pc = "awaitSearch"
    /\ searchFailed' = TRUE
    /\ pc' = "clean"
    /\ UNCHANGED <<rawCache, detailCache, cleanedFile, sheet, allBusinesses, pageToken,
                   totalFetched, cachedData, requestBody, newData, data, pending,
                   requested, placeDetails, cleanedData, scoredData, gotPage, atStart,
                   okCount, gotDetail>>

\* axios.post rejects: getBusinessData logs and rethrows, main's catch ends the run
SearchFailure ==
    /\ pc = "awaitSearch"
    /\ searchFailed' = TRUE
    /\ pc' = "aborted"
    /\ UNCHANGED <<rawCache, detailCache, cleanedFile, sheet, allBusinesses, pageToken,
                   totalFetched, cachedData, requestBody, newData, data, pending,
                   requested, placeDetails, cleanedData, scoredData, gotPage, atStart,
                   okCount, gotDetail>>

\* main's locals before the loop, and nothing of the later stages yet
RunStarts(raw, details, cleaned, tab) ==
    /\ rawCache = raw
    /\ detailCache = details
    /\ cleanedFile = cleaned
    /\ sheet = tab
    /\ pc = "fetch"
    /\ allBusinesses = <<>>
    /\ pageToken = Null
    /\ totalFetched = 0
    /\ cachedData = [places |-> <<>>, nextPageToken |-> Undefined]
    /\ requestBody = Undefined
    /\ newData = [places |-> <<>>, nextPageToken |-> Undefined]
    /\ data = [places |-> <<>>, nextPageToken |-> Undefined]
    /\ pending = {}
    /\ requested = {}
    /\ placeDetails = <<>>
    /\ cleanedData = <<>>
    /\ scoredData = <<>>
    /\ gotPage = FALSE
    /\ searchFailed = FALSE
    /\ atStart = [rawCache |-> raw, detailCache |-> details,
                  cleanedFile |-> cleaned, sheet |-> tab]

----------------------------------------------------------------------------
(* getPlaceDetails and cleanBusinessData *)

\* the characters of place id i: id 0 holds a slash, the others are well formed
DigitChar == <<"0", "1", "2", "3", "4", "5", "6", "7", "8", "9">>

IdText(i) ==
    IF i = 0 THEN <<"b", "/", "d">>
    ELSE <<"p", "_", DigitChar[((i \div 10) % 10) + 1], DigitChar[(i % 10) + 1]>>

AllowedChars ==
    {"a", "b", "c", "d", "e", "f", "g", "h", "i", "j", "k", "l", "m",
     "n", "o", "p", "q", "r", "s", "t", "u", "v", "w", "x", "y", "z",
     "A", "B", "C", "D", "E", "F", "G", "H", "I", "J", "K", "L", "M",
     "N", "O", "P", "Q", "R", "S", "T", "U", "V", "W", "X", "Y", "Z",
     "0", "1", "2", "3", "4", "5", "6", "7", "8", "9", "_", "-"}

\* /^[a-zA-Z0-9_-]+$/.test(placeId)
ValidPlaceId(i) ==
    /\ Len(IdText(i)) >= 1
    /\ \A k \in 1..Len(IdText(i)) : IdText(i)[k] \in AllowedChars

\* placeDetails?.field
Opt(details, field) ==
    IF details[1] = "object" THEN details[2][field] ELSE Undefined

\* variant: the operands of || in the other order
Normalize_rawFirst(business, details) ==
    [name |-> JsOr(JsOr(business.displayName, Opt(details, "displayName")), NA),
     address |-> JsOr(JsOr(business.formattedAddress,
                           Opt(details, "formattedAddress")), NA),
     phone |-> JsOr(Opt(details, "internationalPhoneNumber"), NA),
     website |-> JsOr(Opt(details, "websiteUri"), NA),
     rating |-> JsOr(JsOr(business.rating, Opt(details, "rating")), NA),
     userRatingsTotal |-> JsOr(JsOr(business.userRatingCount,
                                    Opt(details, "userRatingCount")), NA),
     placeId |-> business.id]

\* the record cleanBusinessData returns
Normalize(business, details) ==
    [name |-> JsOr(JsOr(Opt(details, "displayName"), business.displayName), NA),
     address |-> JsOr(JsOr(Opt(details, "formattedAddress"),
                           business.formattedAddress), NA),
     phone |-> JsOr(Opt(details, "internationalPhoneNumber"), NA),
     website |-> JsOr(Opt(details, "websiteUri"), NA),
     rating |-> JsOr(JsOr(Opt(details, "rating"), business.rating), NA),
     userRatingsTotal |-> JsOr(JsOr(Opt(details, "userRatingCount"),
                                    business.userRatingCount), NA),
     placeId |-> business.id]

BusinessOf(id) == allBusinesses[CHOOSE k \in 1..Len(allBusinesses) :
                                    allBusinesses[k].id = id]

\* JSON.parse(fs.readFileSync(cacheFile)): what was written comes back
ReadDetail(id) == detailCache[id]

\* variant: the cache file is never looked for
DetailHit_refetch(id) == FALSE

\* fs.existsSync(cacheFile)
DetailHit(id) == id \in DOMAIN detailCache

\* Promise.all(values.map(cleanBusinessData)): every call runs to its first await;
\* a call that finds its cache file returns its record, the others call
\* getPlaceDetails, which sends a GET unless the id fails the pattern
CleanDispatch ==
    /\ pc = "clean"
    /\ LET ids == Ids(allBusinesses)
           hit == {id \in ids : DetailHit(id)}
       IN  /\ placeDetails' = [id \in hit |-> ReadDetail(id)]
           /\ cleanedData' = [id \in hit |-> Normalize(BusinessOf(id), ReadDetail(id))]
           /\ pending' = ids \ hit
           /\ requested' = {id \in ids \ hit : ValidPlaceId(id)}
    /\ pc' = "awaitDetails"
    /\ UNCHANGED <<rawCache, detailCache, cleanedFile, sheet, allBusinesses, pageToken,
                   totalFetched, cachedData, requestBody, newData, data, scoredData,
                   gotPage, searchFailed, atStart, okCount, gotDetail>>

CountOf(id) == IF id \in DOMAIN okCount THEN okCount[id] ELSE 0

\* variant: a null detail is not written
StoreDetail_unlessNull(id, details) ==
    IF details = Null THEN detailCache ELSE (id :> details) @@ detailCache

\* fs.writeFileSync(cacheFile, JSON.stringify(placeDetails, null, 2))
StoreDetail(id, details) == (id :> details) @@ detailCache

\* getPlaceDetails has returned `details` to the call for `id`: the cache file is
\* written and the record returned
Resolve(id, details) ==
    /\ pc = "awaitDetails"
    /\ id \in pending
    /\ detailCache' = StoreDetail(id, details)
    /\ placeDetails' = (id :> details) @@ placeDetails
    /\ cleanedData' = (id :> Normalize(BusinessOf(id), details)) @@ cleanedData
    /\ pending' = pending \ {id}
    /\ requested' = requested \ {id}
    /\ UNCHANGED <<rawCache, cleanedFile, sheet, pc, allBusinesses, pageToken,
                   totalFetched, cachedData, requestBody, newData, data, scoredData,
                   gotPage, searchFailed, atStart>>

\* the id failed the pattern: null, and no request was made
DetailRejected(id) ==
    /\ id \notin requested
    /\ Resolve(id, Null)
    /\ UNCHANGED <<okCount, gotDetail>>

\* axios.get resolves with the detail
DetailResponse(id, detail) ==
    /\ id \in requested
    /\ Resolve(id, detail)
    /\ okCount' = (id :> Min(CountOf(id) + 1, MaxOk)) @@ okCount
    /\ gotDetail' = IF id \in DOMAIN gotDetail THEN gotDetail
                    ELSE (id :> detail) @@ gotDetail

\* axios.get rejects: logged, null
DetailFailure(id) ==
    /\ id \in requested
    /\ Resolve(id, Null)
    /\ UNCHANGED <<okCount, gotDetail>>

----------------------------------------------------------------------------
(* scoreBusiness, the sort, the cleaned file and the export *)

\* variant: the count thresholds taken with >=
scoreBusiness_atLeast(business) ==
    LET website == IF Truthy(business.website) /\ business.website # NA THEN 20 ELSE 0
        phone == IF Truthy(business.phone) /\ business.phone # NA THEN 10 ELSE 0
        rating == IF Truthy(business.rating) /\ business.rating # NA
                  THEN parseFloat(business.rating) ELSE 0
        count == IF Truthy(business.userRatingsTotal) /\ business.userRatingsTotal # NA
                 THEN LET ratingCount == parseInt(business.userRatingsTotal)
                      IN  IF ratingCount >= 100 THEN 20
                          ELSE IF ratingCount >= 50 THEN 10 ELSE 0
                 ELSE 0
    IN  [score |-> website + phone + rating + count] @@ business

\* scores are in tenths: +2 is 20, +1 is 10, the rating 4.2 is 42
scoreBusiness(business) ==
    LET website == IF Truthy(business.website) /\ business.website # NA THEN 20 ELSE 0
        phone == IF Truthy(business.phone) /\ business.phone # NA THEN 10 ELSE 0
        rating == IF Truthy(business.rating) /\ business.rating # NA
                  THEN parseFloat(business.rating) ELSE 0
        count == IF Truthy(business.userRatingsTotal) /\ business.userRatingsTotal # NA
                 THEN LET ratingCount == parseInt(business.userRatingsTotal)
                      IN  IF ratingCount > 100 THEN 20
                          ELSE IF ratingCount > 50 THEN 10 ELSE 0
                 ELSE 0
    IN  [score |-> website + phone + rating + count] @@ business

\* scoredData.sort((a, b) => b.score - a.score): descending, equal scores keep order
SortByScore(records) ==
    LET n == Len(records)
        place(i) == 1 + Cardinality({j \in 1..n :
                        \/ records[j].score > records[i].score
                        \/ records[j].score = records[i].score /\ j < i})
    IN  [k \in 1..n |-> records[CHOOSE i \in 1..n : place(i) = k]]

\* the normalised records are in, in the order of allBusinesses: score, sort and
\* write the cleaned file; exportToGoogleSheets is called next
ScoreAndCache ==
    /\ pc = "awaitDetails"
    /\ pending = {}
    /\ LET cleaned == [k \in 1..Len(allBusinesses) |-> cleanedData[allBusinesses[k].id]]
           scored == [k \in 1..Len(cleaned) |-> scoreBusiness(cleaned[k])]
       IN  /\ scoredData' = SortByScore(scored)
           /\ cleanedFile' = File(SortByScore(scored))
    /\ pc' = "export"
    /\ UNCHANGED <<rawCache, detailCache, sheet, allBusinesses, pageToken, totalFetched,
                   cachedData, requestBody, newData, data, pending, requested,
                   placeDetails, cleanedData, gotPage, searchFailed, atStart, okCount,
                   gotDetail>>

\* business.phone.startsWith('+1') ? business.phone.substring(3).trim() : business.phone
\* on the phone texts of the model
ExportPhone(phone) == IF phone = Str("+1 555-1212") THEN Str("555-1212") ELSE phone

\* the row of a record; String() of a number is kept as the number
Row(business) ==
    <<business.name, business.address, ExportPhone(business.phone), business.website,
      business.rating, business.userRatingsTotal, business.score>>

\* the tab is cleared, its header set and the rows added
ExportDone ==
    /\ pc = "export"
    /\ sheet' = File([k \in 1..Len(scoredData) |-> Row(scoredData[k])])
    /\ pc' = "done"
    /\ UNCHANGED <<rawCache, detailCache, cleanedFile, allBusinesses, pageToken,
                   totalFetched, cachedData, requestBody, newData, data, pending,
                   requested, placeDetails, cleanedData, scoredData, gotPage,
                   searchFailed, atStart, okCount, gotDetail>>

\* a call of the export throws: logged and swallowed; the tab is as it was, or
\* already cleared
ExportFailure ==
    /\ pc = "export"
    /\ sheet' \in {sheet, File(<<>>)}
    /\ pc' = "done"
    /\ UNCHANGED <<rawCache, detailCache, cleanedFile, allBusinesses, pageToken,
                   totalFetched, cachedData, requestBody, newData, data, pending,
                   requested, placeDetails, cleanedData, scoredData, gotPage,
                   searchFailed, atStart, okCount, gotDetail>>

----------------------------------------------------------------------------
(* The fetch loop of one run over a long search *)

InitLoop ==
    /\ \E raw \in LoopCaches : RunStarts(raw, <<>>, NoFile, NoFile)
    /\ okCount = <<>>
    /\ gotDetail = <<>>

NextLoop ==
    \/ SendSearch
    \/ \E response \in LoopResponses : SearchResponse(response)
    \/ SearchFailure

SpecLoop == InitLoop /\ [][NextLoop]_vars

\* main does not stall: a request it is due to send is sent, and every request
\* sent is answered, by a response or by a failure
Advance ==
    /\ pc \in {"fetch", "awaitSearch"}
    /\ pc' \in {"fetch", "awaitSearch", "clean", "aborted"} \ {pc}

FairLoop == SpecLoop /\ WF_pc(Advance)

----------------------------------------------------------------------------
(* Runs of the whole program over a short search *)

\* a detail as the detail endpoint returns it: the first answer is complete, the
\* second lacks phone, website and rating
PlaceDetail(i, v) ==
    Obj([id |-> i,
         displayName |-> Str("detail name"),
         formattedAddress |-> IF v = 1 THEN Str("detail address") ELSE Undefined,
         internationalPhoneNumber |-> IF v = 1 THEN Str("+1 555-1212") ELSE Undefined,
         websiteUri |-> IF v = 1 THEN Str("https://example.com") ELSE Undefined,
         rating |-> IF v = 1 THEN Num(45) ELSE Undefined,
         userRatingCount |-> Num(51 * v)])

Versions == {1, 2}

Places == 0..MaxPlace

\* pages of no, one or two places
ShortPages ==
    {<<>>} \cup
    {<<SearchPlace(i, 1)>> : i \in Places} \cup
    {<<SearchPlace(ij[1], 1), SearchPlace(ij[2], 1)>> :
        ij \in {x \in Places \X Places : x[1] # x[2]}}

ShortResponses ==
    {[places |-> page, nextPageToken |-> t] :
        page \in ShortPages, t \in {Undefined, Str("tokA")}}

\* a fresh checkout: no cache file, no tab
Init ==
    /\ RunStarts([exists |-> FALSE, places |-> <<>>, nextPageToken |-> Undefined],
                 <<>>, NoFile, NoFile)
    /\ okCount = <<>>
    /\ gotDetail = <<>>

\* the program is started again, over the files the runs before it left
StartRun ==
    /\ pc \in {"done", "aborted"}
    /\ pc' = "fetch"
    /\ allBusinesses' = <<>>
    /\ pageToken' = Null
    /\ totalFetched' = 0
    /\ cachedData' = [places |-> <<>>, nextPageToken |-> Undefined]
    /\ requestBody' = Undefined
    /\ newData' = [places |-> <<>>, nextPageToken |-> Undefined]
    /\ data' = [places |-> <<>>, nextPageToken |-> Undefined]
    /\ pending' = {}
    /\ requested' = {}
    /\ placeDetails' = <<>>
    /\ cleanedData' = <<>>
    /\ scoredData' = <<>>
    /\ gotPage' = FALSE
    /\ searchFailed' = FALSE
    /\ atStart' = [rawCache |-> rawCache,
                   detailCache |-> detailCache, cleanedFile |-> cleanedFile,
                   sheet |-> sheet]
    /\ UNCHANGED <<rawCache, detailCache, cleanedFile, sheet, okCount, gotDetail>>

Next ==
    \/ SendSearch
    \/ \E response \in ShortResponses : SearchResponse(response)
    \/ SearchFailure
    \/ CleanDispatch
    \/ \E id \in pending : DetailRejected(id)
    \/ \E id \in pending, v \in Versions : DetailResponse(id, PlaceDetail(id, v))
    \/ \E id \in pending : DetailFailure(id)
    \/ ScoreAndCache
    \/ ExportDone
    \/ ExportFailure
    \/ StartRun

Spec == Init /\ [][Next]_vars

----------------------------------------------------------------------------
(* One fetch over every small cache entry and every small page *)

\* the sequences of places with distinct ids among 1..MaxMergeId, each place in
\* either version
RECURSIVE PlaceLists(_)
PlaceLists(n) ==
    IF n = 0 THEN {<<>>}
    ELSE LET shorter == PlaceLists(n - 1)
         IN  shorter \cup
             {Append(list, SearchPlace(i, v)) :
                 list \in {l \in shorter : Len(l) = n - 1},
                 i \in 1..MaxMergeId, v \in Versions}

MergeLists == {list \in PlaceLists(MaxMergeId) : NoDupIds(list)}

MergeCaches ==
    {[exists |-> FALSE, places |-> <<>>, nextPageToken |-> Undefined]} \cup
    {[exists |-> TRUE, places |-> list, nextPageToken |-> Str("tokA")] :
        list \in MergeLists}

MergeResponses == {[places |-> list, nextPageToken |-> Undefined] : list \in MergeLists}

InitMerge ==
    /\ \E raw \in MergeCaches : RunStarts(raw, <<>>, NoFile, NoFile)
    /\ okCount = <<>>
    /\ gotDetail = <<>>

NextMerge ==
    \/ SendSearch
    \/ \E response \in MergeResponses : SearchResponse(response)

SpecMerge == InitMerge /\ [][NextMerge]_vars

----------------------------------------------------------------------------
(* Normalisation of one place, over every shape of place and of detail *)

Maybe(value) == {Undefined, value}

RichPlaces ==
    {[id |-> i, displayName |-> n, formattedAddress |-> a, rating |-> r,
      userRatingCount |-> c] :
        i \in Places, n \in Maybe(Str("raw name")), a \in Maybe(Str("raw address")),
        r \in Maybe(Num(40)), c \in Maybe(Num(40))}

RichDetails(i) ==
    {Obj([id |-> i, displayName |-> n, formattedAddress |-> a,
          internationalPhoneNumber |-> p, websiteUri |-> w, rating |-> r,
          userRatingCount |-> c]) :
        n \in Maybe(Str("detail name")), a \in Maybe(Str("detail address")),
        p \in Maybe(Str("+1 555-1212")), w \in Maybe(Str("https://example.com")),
        r \in Maybe(Num(42)), c \in Maybe(Num(120))}

\* main has left the fetch loop with one place; its detail file is absent, or
\* holds null or a detail
InitClean ==
    /\ \E business \in RichPlaces :
          /\ allBusinesses = <<business>>
          /\ detailCache \in {<<>>} \cup
                {(business.id :> d) : d \in {Null} \cup RichDetails(business.id)}
          /\ data = [places |-> <<business>>, nextPageToken |-> Undefined]
          /\ newData = data
          /\ rawCache = [exists |-> TRUE, places |-> <<business>>,
                         nextPageToken |-> Undefined]
    /\ cleanedFile = NoFile
    /\ sheet = NoFile
    /\ pc = "clean"
    /\ pageToken = Undefined
    /\ totalFetched = 1
    /\ cachedData = [places |-> <<>>, nextPageToken |-> Undefined]
    /\ requestBody = Undefined
    /\ pending = {}
    /\ requested = {}
    /\ placeDetails = <<>>
    /\ cleanedData = <<>>
    /\ scoredData = <<>>
    /\ gotPage = TRUE
    /\ searchFailed = FALSE
    /\ atStart = [rawCache |-> [exists |-> FALSE, places |-> <<>>,
                                nextPageToken |-> Undefined],
                  detailCache |-> detailCache, cleanedFile |-> NoFile,
                  sheet |-> NoFile]
    /\ okCount = <<>>
    /\ gotDetail = <<>>

NextClean ==
    \/ CleanDispatch
    \/ \E id \in pending : DetailRejected(id)
    \/ \E id \in pending : \E detail \in RichDetails(id) : DetailResponse(id, detail)
    \/ \E id \in pending : DetailFailure(id)

SpecClean == InitClean /\ [][NextClean]_vars

----------------------------------------------------------------------------
(* Scoring of two normalised records, over every shape of record *)

ScoreInputs(i) ==
    [name : {Str("name")},
     address : {Str("address")},
     phone : {NA, Str("+1 555-1212")},
     website : {NA, Str("https://example.com")},
     rating : {NA, Num(10), Num(45), Num(50)},
     userRatingsTotal : {NA, Num(1), Num(40), Num(50), Num(51), Num(60),
                         Num(100), Num(101), Num(120)},
     placeId : {i}]

\* the normalised records of two places are in
InitScore ==
    /\ allBusinesses = <<SearchPlace(1, 1), SearchPlace(2, 1)>>
    /\ \E first \in ScoreInputs(1), second \in ScoreInputs(2) :
          cleanedData = (1 :> first) @@ (2 :> second)
    /\ placeDetails = (1 :> Null) @@ (2 :> Null)
    /\ detailCache = placeDetails
    /\ data = [places |-> allBusinesses, nextPageToken |-> Undefined]
    /\ newData = data
    /\ rawCache = [exists |-> TRUE, places |-> allBusinesses,
                   nextPageToken |-> Undefined]
    /\ cleanedFile = NoFile
    /\ sheet = NoFile
    /\ pc = "awaitDetails"
    /\ pageToken = Undefined
    /\ totalFetched = 2
    /\ cachedData = [places |-> <<>>, nextPageToken |-> Undefined]
    /\ requestBody = Undefined
    /\ pending = {}
    /\ requested = {}
    /\ scoredData = <<>>
    /\ gotPage = TRUE
    /\ searchFailed = FALSE
    /\ atStart = [rawCache |-> [exists |-> FALSE, places |-> <<>>,
                                nextPageToken |-> Undefined],
                  detailCache |-> <<>>, cleanedFile |-> NoFile, sheet |-> NoFile]
    /\ okCount = <<>>
    /\ gotDetail = <<>>

NextScore ==
    \/ ScoreAndCache
    \/ ExportDone

SpecScore == InitScore /\ [][NextScore]_vars

\* C1: the places accumulated by the fetch loop never number more than 60,
\* whatever the page cache held before and whatever the search answers.
C1_NeverOverCeiling ==
    /\ totalFetched <= Ceiling
    /\ Len(allBusinesses) <= Ceiling

\* C2: no search request is issued after a step that left 60 or more accumulated
\* places or whose response had no next-page token; the first request of a run
\* carries no page token and each later one the token of the response before it.
C2_RequestsFollowTokens ==
    /\ pc \in {"fetch", "awaitSearch"} /\ gotPage =>
          /\ totalFetched < Ceiling
          /\ Truthy(newData.nextPageToken)
    /\ pc = "awaitSearch" =>
          requestBody = (IF gotPage THEN newData.nextPageToken ELSE Undefined)

\* the loop stopped at the ceiling, with a token in hand, after a request with a token
C2_Witness ==
    /\ pc = "clean"
    /\ totalFetched >= Ceiling
    /\ Truthy(pageToken)
    /\ requestBody = Str("tokB")

\* C9: when no search request fails, the loop eventually stops issuing requests
\* and the run goes on to normalisation.
C9_LoopStops == <>(pc = "clean" \/ searchFailed)

\* C4: the persisted page-cache entry never holds two places with one id, and no
\* id that is in the entry is gone from it after a later step.
C4_CacheIdsUniqueAndKept ==
    /\ [](NoDupIds(rawCache.places))
    /\ [][Ids(rawCache.places) \subseteq Ids(rawCache'.places)]_vars

\* a page that overlaps the cached entry was merged into it, and the entry has grown
C4_Witness ==
    /\ gotPage
    /\ Ids(newData.places) \cap Ids(cachedData.places) # {}
    /\ Len(rawCache.places) > Len(cachedData.places)
    /\ atStart.rawCache.exists

\* C5: once a detail request for a place id has succeeded, the detail it returned
\* is what the per-id cache file holds, every resolution of that id uses that
\* copy, no further request for the id is made, and so no second one succeeds.
C5_DetailFetchedOnce ==
    \A id \in DOMAIN gotDetail :
        /\ id \in DOMAIN detailCache
        /\ detailCache[id] = gotDetail[id]
        /\ CountOf(id) <= 1
        /\ id \notin requested
        /\ id \in DOMAIN placeDetails => placeDetails[id] = gotDetail[id]

\* a later run has resolved, from the cache file, an id fetched by an earlier run
C5_Witness ==
    \E id \in DOMAIN gotDetail :
        /\ id \in DOMAIN atStart.detailCache
        /\ id \in DOMAIN cleanedData
        /\ pc = "done"

\* C6: a failed search request ends the run: nothing is normalised or scored, the
\* cleaned file, the detail cache and the sheet stay as the run found them, and
\* the page cache is as the last successful page of the run wrote it (as the run
\* found it, if there was none).
C6_SearchFailureAborts ==
    searchFailed =>
        /\ pc = "aborted"
        /\ pending = {}
        /\ requested = {}
        /\ DOMAIN placeDetails = {}
        /\ DOMAIN cleanedData = {}
        /\ Len(scoredData) = 0
        /\ cleanedFile = atStart.cleanedFile
        /\ sheet = atStart.sheet
        /\ detailCache = atStart.detailCache
        /\ rawCache = (IF gotPage
                       THEN [exists |-> TRUE, places |-> data.places,
                             nextPageToken |-> data.nextPageToken]
                       ELSE atStart.rawCache)

\* the second request of a run failed, after the first page had changed the cache
C6_Witness ==
    /\ searchFailed
    /\ gotPage
    /\ rawCache # atStart.rawCache
    /\ atStart.cleanedFile # NoFile

\* the record of a place with no detail: the search's values, "N/A" for the rest
RawOnly(business) ==
    [name |-> IF Truthy(business.displayName) THEN business.displayName ELSE NA,
     address |-> IF Truthy(business.formattedAddress)
                 THEN business.formattedAddress ELSE NA,
     phone |-> NA,
     website |-> NA,
     rating |-> IF Truthy(business.rating) THEN business.rating ELSE NA,
     userRatingsTotal |-> IF Truthy(business.userRatingCount)
                          THEN business.userRatingCount ELSE NA,
     placeId |-> business.id]

C3_MergeIsUnionIncomingWins ==
    gotPage =>
        /\ Ids(data.places) = Ids(cachedData.places) \cup Ids(newData.places)
        /\ \A k \in 1..Len(data.places) :
              IF data.places[k].id \in Ids(newData.places)
              THEN \E j \in 1..Len(newData.places) : newData.places[j] = data.places[k]
              ELSE \E j \in 1..Len(cachedData.places) :
                        cachedData.places[j] = data.places[k]

\* the page shares an id with the cached entry, under other values, and each has
\* an id of its own
C3_Witness ==
    /\ gotPage
    /\ \E i \in 1..Len(cachedData.places), j \in 1..Len(newData.places) :
          /\ cachedData.places[i].id = newData.places[j].id
          /\ cachedData.places[i] # newData.places[j]
    /\ Ids(cachedData.places) \ Ids(newData.places) # {}
    /\ Ids(newData.places) \ Ids(cachedData.places) # {}

\* the score the claim gives, in tenths
ClaimedScore(record) ==
    (IF record.website # NA THEN 20 ELSE 0)
    + (IF record.phone # NA THEN 10 ELSE 0)
    + (IF record.rating # NA THEN record.rating[2] ELSE 0)
    + (IF record.userRatingsTotal = NA THEN 0
       ELSE IF record.userRatingsTotal[2] > 100 THEN 20
       ELSE IF record.userRatingsTotal[2] > 50 THEN 10 ELSE 0)

Inputs(scored) == [f \in DOMAIN scored \ {"score"} |-> scored[f]]

\* b is a but for one field
SameBut(a, b, field) ==
    \A f \in DOMAIN a \ {"score", "placeId", field} : a[f] = b[f]

Claimed(details, field, raw) ==
    IF details # Null /\ details[2][field] # Undefined THEN details[2][field]
    ELSE IF raw # Undefined THEN raw
    ELSE NA

====
